---- MODULE Spec2Model ----
(***************************************************************************)
(* Model of react-grainy's Canvas component (the version with the paused / *)
(* noiseTextureSize props, utils.ts lines 493-832): its three effects, the *)
(* render callback, the requestAnimationFrame queue of the host and the    *)
(* validation done by renderGradient.                                      *)
(*                                                                         *)
(* One step of the model is one task of the single-threaded host: a React  *)
(* commit (a render of the component followed by the effects whose         *)
(* dependencies changed), a display refresh (every callback that was       *)
(* pending when the refresh started is run, in the order it was            *)
(* requested), or the unmount of the component.                            *)
(***************************************************************************)
EXTENDS Integers, Sequences, FiniteSets, TLC

\* ------------------------------------------------------------------ bounds
MaxChanges == 2     \* prop changes made by the parent after mount
MaxDraws == 2       \* display refreshes are delivered while draws < MaxDraws

\* ------------------------------------------------------------------ values
\* null of a ref or of a useState value; WebGL objects and request ids are
\* positive integers.
Null == 0

\* JavaScript numbers that a numeric prop can hold, and undefined.
Num(n) == [type |-> "number", finite |-> TRUE, v |-> n]
NaN == [type |-> "number", finite |-> FALSE, v |-> 0]
PosInfinity == [type |-> "number", finite |-> FALSE, v |-> 1]
Undefined == [type |-> "undefined", finite |-> FALSE, v |-> 0]

\* typeof x === 'number' && Number.isFinite(x)
IsFiniteNumber(x) == x.type = "number" /\ x.finite

\* x > 0 of JavaScript (false for NaN, true for +Infinity)
GreaterThanZero(x) == x.type = "number" /\ x.v > 0

\* Gradient descriptions the parent passes, or a gradient function returns.
LinearDescription == "linear-gradient(90deg, #000, #fff)"
RadialDescription == "radial-gradient(#000, #fff)"
Descriptions == {LinearDescription, RadialDescription}
GradientFunction == "(time, size) => string"

\* gradientParser.parse: the list of gradient nodes of a description, each
\* with its type and its number of color stops.
Parse(description) ==
    IF description = LinearDescription
    THEN << [type |-> "linear-gradient", colorStops |-> 2] >>
    ELSE << [type |-> "radial-gradient", colorStops |-> 2] >>

\* ------------------------------------------------------------------ state
VARIABLES
    environment,       \* what canvas.getContext does on this host
    phase,             \* "rendered" (effects not run yet), "mounted", "unmounted"
    props,             \* the props of the last render
    canvas,            \* the width and height attributes of the canvas element
    state,             \* [gl, program, grainTexture] as seen by the last render
    queue,             \* the same after the setState calls made by effects
    deps,              \* dependency lists with which each effect last ran
    hasCleanup,        \* the scheduling effect's last run returned its cleanup
    animationFrameId,  \* animationFrameId.current
    didFireReady,      \* didFireReady.current
    pending,           \* requestAnimationFrame callbacks not yet run or cancelled
    nextId,            \* the id the next requestAnimationFrame call returns
    programs,          \* WebGL programs created and not deleted
    textures,          \* WebGL textures created and not deleted
    noise,             \* (seed, size) of the image last uploaded to the texture, and
                       \* uploads, the images generated since (seed, size) last changed
    draws,             \* renderGradient calls that completed without throwing
    readyLog,          \* the onReady values that onReady?.() was evaluated on
    errorLog,          \* the handlers onContextError?.() has invoked
    effectThrew,       \* an exception escaped the context effect
    frameThrew,        \* a callback of the last display refresh threw
    changes,           \* prop changes made so far
    call               \* a single call of a function of the module, and its result

canvasVars == << environment, phase, props, canvas, state, queue, deps, hasCleanup,
                 animationFrameId, didFireReady, pending, nextId, programs,
                 textures, noise, draws, readyLog, errorLog, effectThrew,
                 frameThrew, changes >>

vars == << canvasVars, call >>

\* The values each prop ranges over.
PropDomain ==
    [ gradient |-> Descriptions \cup {GradientFunction},
      shimmerSpeed |-> {Num(-1), Num(0), Num(1), NaN, PosInfinity},
      width |-> {1, 2},
      height |-> {1, 2},
      noiseTextureSize |-> {Undefined, Num(2)},
      noiseSeed |-> {1, 2},
      paused |-> BOOLEAN,
      preserveAspect |-> BOOLEAN,
      initialTime |-> {0, 1},
      onReady |-> {"undefined", "onReadyA", "onReadyB"},
      onContextError |-> {"undefined", "onContextErrorA"},
      contextAttributes |-> {"undefined", "attributesA"},
      forceWebGL1 |-> BOOLEAN ]

\* The defaults of the destructured props.
DefaultProps ==
    [ gradient |-> LinearDescription,
      shimmerSpeed |-> Num(0),
      width |-> 1,
      height |-> 1,
      noiseTextureSize |-> Undefined,
      noiseSeed |-> 1,
      paused |-> FALSE,
      preserveAspect |-> TRUE,
      initialTime |-> 0,
      onReady |-> "onReadyA",
      onContextError |-> "onContextErrorA",
      contextAttributes |-> "undefined",
      forceWebGL1 |-> TRUE ]

\* ------------------------------------------------------------------ host
\* canvas.getContext(kind): "context", "null" or "throws".
Environments == {"webgl", "experimental-only", "unavailable", "throws"}

GetContext(env, kind) ==
    CASE env = "webgl" -> "context"
      [] env = "experimental-only" ->
            IF kind = "experimental-webgl" THEN "context" ELSE "null"
      [] env = "unavailable" -> "null"
      [] OTHER -> "throws"

\* The one context object a canvas hands out.
Context == 1


\* ------------------------------------------------------------------ renderGradient
\* The validation without the test of the gradient's type.
RenderGradientErrorWithoutType(parsed) ==
    IF Len(parsed) # 1 THEN "can only support one gradient"
    ELSE IF parsed[1].colorStops < 1 THEN "gradient needs at least two color stops"
    ELSE "none"

\* The validation at the head of renderGradient: the message of the Error it
\* throws for this parse result, or "none" when it goes on to draw.
RenderGradientError(parsed) ==
    IF Len(parsed) # 1 THEN "can only support one gradient"
    ELSE IF parsed[1].type # "linear-gradient"
         THEN "only linear-gradient is supported at this time"
    ELSE IF parsed[1].colorStops < 1 THEN "gradient needs at least two color stops"
    ELSE "none"

\* renderGradient on a parse result: whether it threw and with which message,
\* whether it reached drawArrays, and the number of stops it drew.
RenderGradient(parsed) ==
    LET error == RenderGradientError(parsed)
    IN  IF error # "none"
        THEN [threw |-> TRUE, error |-> error, drawn |-> FALSE, count |-> 0]
        ELSE [threw |-> FALSE, error |-> "none", drawn |-> TRUE,
              count |-> parsed[1].colorStops]

\* ------------------------------------------------------------------ Canvas
DefaultNoiseTextureSize == 256

\* effectiveSize of the noise-texture effect
EffectiveNoiseSize(noiseTextureSize) ==
    IF IsFiniteNumber(noiseTextureSize) THEN noiseTextureSize.v
    ELSE DefaultNoiseTextureSize

\* effectiveShimmer of the scheduling effect
EffectiveShimmer(shimmerSpeed) ==
    IF IsFiniteNumber(shimmerSpeed) THEN shimmerSpeed ELSE Num(0)

\* The animated predicate with the pause flag left out.
AnimatedIgnoringPause(p) ==
    \/ p.gradient = GradientFunction
    \/ GreaterThanZero(EffectiveShimmer(p.shimmerSpeed))

\* const animated = (typeof gradient === 'function' || effectiveShimmer > 0) && !paused
Animated(p) ==
    /\ \/ p.gradient = GradientFunction
       \/ GreaterThanZero(EffectiveShimmer(p.shimmerSpeed))
    /\ ~p.paused

\* What the render callback of a render closes over (its useCallback list).
RenderClosure(p, s) ==
    [ initialTime |-> p.initialTime,
      shimmerSpeed |-> p.shimmerSpeed,
      gl |-> s.gl,
      program |-> s.program,
      noiseTextureSize |-> p.noiseTextureSize,
      grainTexture |-> s.grainTexture,
      gradient |-> p.gradient,
      preserveAspect |-> p.preserveAspect,
      onReady |-> p.onReady ]

\* Dependency lists of the three effects.
ContextDeps(p) == << p.contextAttributes, p.forceWebGL1, p.onContextError >>

NoiseDeps(p, s) ==
    << s.program, p.noiseSeed, p.noiseTextureSize, s.gl, s.grainTexture >>

ScheduleDeps(p, s) ==
    << s.grainTexture, p.gradient, p.shimmerSpeed, p.preserveAspect, s.gl,
       s.program, RenderClosure(p, s), p.width, p.height, p.noiseTextureSize,
       p.paused >>

\* The context effect without the early return of if (!context).
ContextEffectWithoutReturn(p, env) ==
    [ context |-> IF GetContext(env, "webgl") = "context" THEN Context ELSE Null,
      reports |-> IF GetContext(env, "webgl") = "context" THEN 0 ELSE 1,
      acquired |-> TRUE,
      threw |-> FALSE ]

\* The context effect up to its early return: the context it obtained, how
\* many times it called onContextError?.(), whether it goes on to setGl and
\* setProgram, and whether an exception escaped it.
ContextEffect(p, env) ==
    LET webgl == IF p.forceWebGL1 THEN GetContext(env, "webgl") ELSE "null"
        experimental ==
            IF webgl = "null" THEN GetContext(env, "experimental-webgl")
            ELSE "not called"
        caught == webgl = "throws" \/ experimental = "throws"
        context ==
            IF webgl = "context" \/ experimental = "context" THEN Context ELSE Null
    IN  [ context |-> context,
          reports |-> (IF caught THEN 1 ELSE 0) + (IF context = Null THEN 1 ELSE 0),
          acquired |-> context # Null,
          threw |-> FALSE ]

\* cancelAnimationFrame(id), guarded by if (animationFrameId.current)
Cancel(callbacks, id) ==
    IF id # Null THEN {c \in callbacks : c.id # id} ELSE callbacks

\* The reschedule test with the comparison inverted.
ReschedulesInverted(ref) == ref = Null

\* if (animationFrameId.current !== null) requestAnimationFrame(render)
Reschedules(ref) == ref # Null

\* The onReady test without the didFireReady latch.
ReadyAlways(fired) == TRUE

\* if (!didFireReady.current)
ReadyNotFired(fired) == ~fired

\* The render callback requesting the next frame before it draws.
RenderRequestingFirst(r, output, element, ref, acc) ==
    IF r.gl = Null \/ r.program = Null \/ r.grainTexture = Null \/ ~element
    THEN acc
    ELSE
      LET gradientString ==
              IF r.gradient \in Descriptions THEN r.gradient ELSE output
          again ==
              IF Reschedules(ref)
              THEN [acc EXCEPT
                      !.requested = @ \cup
                          {[id |-> acc.nextId, fn |-> "render", render |-> r]},
                      !.nextId = @ + 1]
              ELSE acc
      IN  IF RenderGradient(Parse(gradientString)).threw
          THEN [again EXCEPT !.threw = TRUE]
          ELSE
            LET drawn == [again EXCEPT !.draws = @ + 1]
            IN  IF ReadyNotFired(drawn.didFireReady)
                THEN [drawn EXCEPT !.didFireReady = TRUE,
                                   !.readyLog = Append(@, r.onReady)]
                ELSE drawn

\* One call of the render callback r in a display refresh. output is what a
\* gradient function returns in this call, element is canvasRef.current being
\* set, ref is animationFrameId.current; acc carries the refs and counters
\* through the callbacks of the refresh.
Render(r, output, element, ref, acc) ==
    IF r.gl = Null \/ r.program = Null \/ r.grainTexture = Null \/ ~element
    THEN acc
    ELSE
      LET gradientString ==
              IF r.gradient \in Descriptions THEN r.gradient ELSE output
      IN  IF RenderGradient(Parse(gradientString)).threw
          THEN [acc EXCEPT !.threw = TRUE]
          ELSE
            LET drawn == [acc EXCEPT !.draws = @ + 1]
                again ==
                    IF Reschedules(ref)
                    THEN [drawn EXCEPT
                            !.requested = @ \cup
                                {[id |-> drawn.nextId, fn |-> "render", render |-> r]},
                            !.nextId = @ + 1]
                    ELSE drawn
            IN  IF ReadyNotFired(again.didFireReady)
                THEN [again EXCEPT !.didFireReady = TRUE,
                                   !.readyLog = Append(@, r.onReady)]
                ELSE again

\* The callbacks of a set in the order they were requested.
RECURSIVE InRequestOrder(_)
InRequestOrder(callbacks) ==
    IF callbacks = {} THEN << >>
    ELSE LET first == CHOOSE c \in callbacks : \A d \in callbacks : c.id <= d.id
         IN  << first >> \o InRequestOrder(callbacks \ {first})

\* Run the callbacks of one display refresh, one after the other. An
\* exception thrown by one is reported by the host and the next one runs.
RECURSIVE RunCallbacks(_, _, _, _, _)
RunCallbacks(callbacks, outputs, element, ref, acc) ==
    IF callbacks = << >> THEN acc
    ELSE RunCallbacks(Tail(callbacks), Tail(outputs), element, ref,
                      Render(Head(callbacks).render, Head(outputs), element, ref, acc))

\* The pair the noise image is generated from
NoiseKey(p) == << p.noiseSeed, EffectiveNoiseSize(p.noiseTextureSize) >>

\* The width and height attributes the canvas element is rendered with
\* (resolutionScale is left at its default, 1).
CanvasSize(p) == [width |-> p.width, height |-> p.height]

\* A render of Canvas with props p, and the effects that follow it: first
\* the cleanup of the scheduling effect when it is about to run again, then
\* the context effect, the noise-texture effect and the scheduling effect,
\* each only if one of its dependencies changed.
Commit(p) ==
    LET s == queue
        first == phase = "rendered"
        runContext == first \/ deps.context # ContextDeps(p)
        runNoise == first \/ deps.noise # NoiseDeps(p, s)
        runSchedule == first \/ deps.schedule # ScheduleDeps(p, s)
        kept ==
            IF runSchedule /\ hasCleanup THEN Cancel(pending, animationFrameId)
            ELSE pending
        ce == ContextEffect(p, environment)
        setsContext == runContext /\ ce.acquired
        newProgram == Cardinality(programs) + 1
        uploads == runNoise /\ s.program # Null /\ s.gl # Null
        createsTexture == uploads /\ s.grainTexture = Null
        newTexture == Cardinality(textures) + 1
        schedules ==
            runSchedule /\ s.program # Null /\ s.grainTexture # Null /\ s.gl # Null
    IN  /\ props' = p
        /\ canvas' = CanvasSize(p)
        /\ state' = s
        /\ queue' = [ gl |-> IF setsContext THEN ce.context ELSE s.gl,
                      program |-> IF setsContext THEN newProgram ELSE s.program,
                      grainTexture |->
                          IF createsTexture THEN newTexture ELSE s.grainTexture ]
        /\ deps' = [ context |-> ContextDeps(p),
                     noise |-> NoiseDeps(p, s),
                     schedule |-> ScheduleDeps(p, s) ]
        /\ errorLog' =
              IF runContext /\ ce.reports > 0 /\ p.onContextError # "undefined"
              THEN errorLog \cup {p.onContextError}
              ELSE errorLog
        /\ effectThrew' = (effectThrew \/ (runContext /\ ce.threw))
        /\ programs' = IF setsContext THEN programs \cup {newProgram} ELSE programs
        /\ textures' = IF createsTexture THEN textures \cup {newTexture} ELSE textures
        /\ noise' =
              LET generated ==
                      IF NoiseKey(p) = NoiseKey(props) THEN noise.uploads ELSE 0
              IN  IF uploads
                  THEN [ seed |-> p.noiseSeed,
                         size |-> EffectiveNoiseSize(p.noiseTextureSize),
                         uploads |-> generated + 1 ]
                  ELSE [noise EXCEPT !.uploads = generated]
        /\ hasCleanup' = IF runSchedule THEN schedules ELSE hasCleanup
        /\ animationFrameId' =
              IF schedules
              THEN (IF Animated(p) THEN nextId ELSE Null)
              ELSE animationFrameId
        /\ pending' =
              IF schedules
              THEN kept \cup
                   {[ id |-> nextId,
                      fn |-> IF Animated(p) THEN "render" ELSE "() => render()",
                      render |-> RenderClosure(p, s) ]}
              ELSE kept
        /\ nextId' = IF schedules THEN nextId + 1 ELSE nextId

\* ------------------------------------------------------------------ actions
InitialProps ==
    { [DefaultProps EXCEPT !.gradient = g] :
        g \in {LinearDescription, GradientFunction} }

NoCall == [fn |-> "none", input |-> << >>, done |-> FALSE, result |-> << >>]

CanvasInit ==
    /\ environment \in Environments
    /\ phase = "rendered"
    /\ props \in InitialProps
    /\ canvas = CanvasSize(props)
    /\ state = [gl |-> Null, program |-> Null, grainTexture |-> Null]
    /\ queue = state
    /\ deps = [ context |-> ContextDeps(props),
                noise |-> NoiseDeps(props, state),
                schedule |-> ScheduleDeps(props, state) ]
    /\ hasCleanup = FALSE
    /\ animationFrameId = Null
    /\ didFireReady = FALSE
    /\ pending = {}
    /\ nextId = 1
    /\ programs = {}
    /\ textures = {}
    /\ noise = [seed |-> 0, size |-> 0, uploads |-> 0]
    /\ draws = 0
    /\ readyLog = << >>
    /\ errorLog = {}
    /\ effectThrew = FALSE
    /\ frameThrew = FALSE
    /\ changes = 0

Init == CanvasInit /\ call = NoCall

\* The effects of the first render run.
Mount ==
    /\ phase = "rendered"
    /\ phase' = "mounted"
    /\ Commit(props)
    /\ UNCHANGED << environment, didFireReady, draws, readyLog, frameThrew, changes,
                    call >>

\* React renders again after an effect called setGl, setProgram or
\* setGrainTexture.
Rerender ==
    /\ phase = "mounted"
    /\ queue # state
    /\ Commit(props)
    /\ UNCHANGED << environment, phase, didFireReady, draws, readyLog, frameThrew,
                    changes, call >>

\* The parent renders Canvas with one prop changed.
ChangeProp ==
    /\ phase = "mounted"
    /\ changes < MaxChanges
    /\ \E name \in DOMAIN PropDomain : \E value \in PropDomain[name] :
          /\ value # props[name]
          /\ Commit([props EXCEPT ![name] = value])
    /\ changes' = changes + 1
    /\ UNCHANGED << environment, phase, didFireReady, draws, readyLog, frameThrew,
                    call >>

\* The host delivers a display refresh: every callback pending at its start
\* runs; the callbacks they request wait for the next refresh.
Frame ==
    /\ pending # {}
    /\ draws < MaxDraws
    /\ \E outputs \in [1 .. Cardinality(pending) -> Descriptions] :
          LET acc == RunCallbacks(InRequestOrder(pending), outputs,
                                  phase = "mounted", animationFrameId,
                                  [ requested |-> {}, nextId |-> nextId,
                                    draws |-> draws, didFireReady |-> didFireReady,
                                    readyLog |-> readyLog, threw |-> FALSE ])
          IN  /\ pending' = acc.requested
              /\ nextId' = acc.nextId
              /\ draws' = acc.draws
              /\ didFireReady' = acc.didFireReady
              /\ readyLog' = acc.readyLog
              /\ frameThrew' = acc.threw
    /\ UNCHANGED << environment, phase, props, canvas, state, queue, deps,
                    hasCleanup, animationFrameId, programs, textures, noise, errorLog,
                    effectThrew, changes, call >>

\* Canvas leaves the tree: React clears canvasRef and runs the cleanup of the
\* scheduling effect.
Unmount ==
    /\ phase = "mounted"
    /\ phase' = "unmounted"
    /\ pending' = IF hasCleanup THEN Cancel(pending, animationFrameId) ELSE pending
    /\ hasCleanup' = FALSE
    /\ UNCHANGED << environment, props, canvas, state, queue, deps,
                    animationFrameId, didFireReady, nextId, programs, textures, noise, draws,
                    readyLog, errorLog, effectThrew, frameThrew, changes, call >>

Next == Mount \/ Rerender \/ ChangeProp \/ Frame \/ Unmount

Spec == Init /\ [][Next]_vars

\* ------------------------------------------------------------------ GrainyGradient
\* The older component of index.tsx, which sizes its canvas from a
\* ResizeObserver. It is modelled over the same variables: props holds its
\* props, hasCleanup says that its observer is connected, changes counts the
\* resize notifications.
MaxResizes == 3     \* resize notifications delivered to one instance

LegacyProps ==
    { [ gradient |-> g, grainSize |-> 256, grainSeed |-> 1, shimmer |-> x,
        preserveAspect |-> TRUE ] :
        g \in Descriptions \cup {GradientFunction}, x \in {Num(0), Num(1)} }

\* What the render callback of GrainyGradient closes over.
LegacyRenderClosure(p, s) ==
    [ shimmer |-> p.shimmer, gl |-> s.gl, program |-> s.program,
      grainSize |-> p.grainSize, grainTexture |-> s.grainTexture,
      gradient |-> p.gradient, preserveAspect |-> p.preserveAspect ]

LegacyNoiseDeps(p, s) ==
    << s.program, p.grainSeed, p.grainSize, s.gl, s.grainTexture >>

LegacyObserverDeps(p, s) ==
    << s.grainTexture, p.gradient, p.shimmer, p.preserveAspect, s.gl, s.program,
       LegacyRenderClosure(p, s) >>

\* One call of GrainyGradient's render: it draws and then requests itself
\* again, whatever animationFrameId holds, and does not keep the id.
LegacyRender(r, output, element, acc) ==
    IF r.gl = Null \/ r.program = Null \/ r.grainTexture = Null \/ ~element
    THEN acc
    ELSE
      LET gradientString ==
              IF r.gradient \in Descriptions THEN r.gradient ELSE output
      IN  IF RenderGradient(Parse(gradientString)).threw
          THEN [acc EXCEPT !.threw = TRUE]
          ELSE [acc EXCEPT
                  !.draws = @ + 1,
                  !.requested = @ \cup
                      {[id |-> acc.nextId, fn |-> "render", render |-> r]},
                  !.nextId = @ + 1]

RECURSIVE LegacyRunCallbacks(_, _, _, _)
LegacyRunCallbacks(callbacks, outputs, element, acc) ==
    IF callbacks = << >> THEN acc
    ELSE LegacyRunCallbacks(Tail(callbacks), Tail(outputs), element,
                            LegacyRender(Head(callbacks).render, Head(outputs),
                                         element, acc))

\* A render of GrainyGradient and the effects that follow it: the cleanup of
\* the observer effect (disconnect, cancel), the context effect on the first
\* render, the texture effect and the observer effect.
LegacyCommit ==
    LET p == props
        s == queue
        first == phase = "rendered"
        runNoise == first \/ deps.noise # LegacyNoiseDeps(p, s)
        runObserver == first \/ deps.schedule # LegacyObserverDeps(p, s)
        kept ==
            IF runObserver /\ hasCleanup THEN Cancel(pending, animationFrameId)
            ELSE pending
        setsContext == first /\ GetContext(environment, "webgl") = "context"
        newProgram == Cardinality(programs) + 1
        uploads == runNoise /\ s.program # Null /\ s.gl # Null
        createsTexture == uploads /\ s.grainTexture = Null
        newTexture == Cardinality(textures) + 1
        observes ==
            runObserver /\ s.program # Null /\ s.grainTexture # Null /\ s.gl # Null
    IN  /\ state' = s
        /\ queue' = [ gl |-> IF setsContext THEN Context ELSE s.gl,
                      program |-> IF setsContext THEN newProgram ELSE s.program,
                      grainTexture |->
                          IF createsTexture THEN newTexture ELSE s.grainTexture ]
        /\ deps' = [ context |-> << >>,
                     noise |-> LegacyNoiseDeps(p, s),
                     schedule |-> LegacyObserverDeps(p, s) ]
        /\ programs' = IF setsContext THEN programs \cup {newProgram} ELSE programs
        /\ textures' = IF createsTexture THEN textures \cup {newTexture} ELSE textures
        /\ noise' = IF uploads
                    THEN [ seed |-> p.grainSeed, size |-> p.grainSize,
                           uploads |-> noise.uploads + 1 ]
                    ELSE noise
        /\ hasCleanup' = IF runObserver THEN observes ELSE hasCleanup
        /\ pending' = kept

LegacyInit ==
    /\ environment \in {"webgl", "unavailable"}
    /\ phase = "rendered"
    /\ props \in LegacyProps
    /\ canvas = [width |-> 300, height |-> 150]
    /\ state = [gl |-> Null, program |-> Null, grainTexture |-> Null]
    /\ queue = state
    /\ deps = [ context |-> << >>,
                noise |-> LegacyNoiseDeps(props, state),
                schedule |-> LegacyObserverDeps(props, state) ]
    /\ hasCleanup = FALSE
    /\ animationFrameId = Null
    /\ didFireReady = FALSE
    /\ pending = {}
    /\ nextId = 1
    /\ programs = {}
    /\ textures = {}
    /\ noise = [seed |-> 0, size |-> 0, uploads |-> 0]
    /\ draws = 0
    /\ readyLog = << >>
    /\ errorLog = {}
    /\ effectThrew = FALSE
    /\ frameThrew = FALSE
    /\ changes = 0
    /\ call = NoCall

LegacyMount ==
    /\ phase = "rendered"
    /\ phase' = "mounted"
    /\ LegacyCommit
    /\ UNCHANGED << environment, props, canvas, animationFrameId, didFireReady,
                    nextId, draws, readyLog, errorLog, effectThrew, frameThrew,
                    changes, call >>

LegacyRerender ==
    /\ phase = "mounted"
    /\ queue # state
    /\ LegacyCommit
    /\ UNCHANGED << environment, phase, props, canvas, animationFrameId,
                    didFireReady, nextId, draws, readyLog, errorLog, effectThrew,
                    frameThrew, changes, call >>

\* The observer notifies resizeCanvas: the canvas takes the container's size,
\* the request animationFrameId holds is cancelled and render is requested.
LegacyResize ==
    /\ phase = "mounted"
    /\ hasCleanup
    /\ changes < MaxResizes
    /\ \E w \in {1, 2}, h \in {1, 2} : canvas' = [width |-> w, height |-> h]
    /\ pending' = Cancel(pending, animationFrameId) \cup
                    {[ id |-> nextId, fn |-> "render",
                       render |-> LegacyRenderClosure(props, state) ]}
    /\ animationFrameId' = nextId
    /\ nextId' = nextId + 1
    /\ changes' = changes + 1
    /\ UNCHANGED << environment, phase, props, state, queue, deps, hasCleanup,
                    didFireReady, programs, textures, noise, draws, readyLog,
                    errorLog, effectThrew, frameThrew, call >>

LegacyFrame ==
    /\ pending # {}
    /\ draws < MaxDraws
    /\ \E outputs \in [1 .. Cardinality(pending) -> Descriptions] :
          LET acc == LegacyRunCallbacks(InRequestOrder(pending), outputs,
                                        phase = "mounted",
                                        [ requested |-> {}, nextId |-> nextId,
                                          draws |-> draws, threw |-> FALSE ])
          IN  /\ pending' = acc.requested
              /\ nextId' = acc.nextId
              /\ draws' = acc.draws
              /\ frameThrew' = acc.threw
    /\ UNCHANGED << environment, phase, props, canvas, state, queue, deps,
                    hasCleanup, animationFrameId, didFireReady, programs, textures,
                    noise, readyLog, errorLog, effectThrew, changes, call >>

LegacyUnmount ==
    /\ phase = "mounted"
    /\ phase' = "unmounted"
    /\ pending' = IF hasCleanup THEN Cancel(pending, animationFrameId) ELSE pending
    /\ hasCleanup' = FALSE
    /\ UNCHANGED << environment, props, canvas, state, queue, deps,
                    animationFrameId, didFireReady, nextId, programs, textures,
                    noise, draws, readyLog, errorLog, effectThrew, frameThrew,
                    changes, call >>

LegacyNext ==
    LegacyMount \/ LegacyRerender \/ LegacyResize \/ LegacyFrame \/ LegacyUnmount

LegacySpec == LegacyInit /\ [][LegacyNext]_vars

\* ------------------------------------------------------------------ renderGradient alone
MaxGradients == 2   \* gradients in one parse result
MaxStops == 2       \* color stops of one gradient

\* The node types gradient-parser produces.
GradientTypes ==
    { "linear-gradient", "repeating-linear-gradient", "radial-gradient",
      "repeating-radial-gradient" }

ParseResults ==
    UNION { [1 .. n -> [type : GradientTypes, colorStops : 0 .. MaxStops]] :
              n \in 0 .. MaxGradients }

RenderGradientInit ==
    /\ CanvasInit
    /\ environment = "webgl"
    /\ props = DefaultProps
    /\ call \in [fn : {"renderGradient"}, input : ParseResults, done : {FALSE},
                  result : {<< >>}]

CallRenderGradient ==
    /\ call.fn = "renderGradient"
    /\ ~call.done
    /\ call' = [call EXCEPT !.done = TRUE, !.result = RenderGradient(call.input)]
    /\ UNCHANGED canvasVars

RenderGradientSpec == RenderGradientInit /\ [][CallRenderGradient]_vars


\* ------------------------------------------------------------------ numbers
\* The numbers the gradient arithmetic produces: a fraction num / den in
\* lowest terms with den > 0, NaN, or +Infinity.
RECURSIVE GCD(_, _)
GCD(a, b) == IF b = 0 THEN a ELSE GCD(b, a % b)

Abs(n) == IF n < 0 THEN -n ELSE n

Max(a, b) == IF a >= b THEN a ELSE b

Min(a, b) == IF a <= b THEN a ELSE b

Real(n, d) ==
    LET g == GCD(Abs(n), d)
    IN  [nan |-> FALSE, inf |-> FALSE, num |-> n \div g, den |-> d \div g]

RealNaN == [nan |-> TRUE, inf |-> FALSE, num |-> 0, den |-> 1]

RealInfinity == [nan |-> FALSE, inf |-> TRUE, num |-> 1, den |-> 1]

\* x * k and x / d of JavaScript for an integer k and an integer d > 0: NaN
\* stays NaN.
Times(x, k) == IF x.nan THEN RealNaN ELSE Real(x.num * k, x.den)

Over(x, d) == IF x.nan THEN RealNaN ELSE Real(x.num, x.den * d)

\* x / y for a fraction y > 0
OverReal(x, y) == IF x.nan THEN RealNaN ELSE Real(x.num * y.den, x.den * y.num)

\* 0 <= x <= 1, false for NaN and Infinity as every comparison with them is
InUnitInterval(x) == ~x.nan /\ ~x.inf /\ 0 <= x.num /\ x.num <= x.den

\* The characters of the numeric literals gradient-parser hands over in the
\* value of an angle or of a stop length. Its number pattern accepts a
\* literal without integer part, such as .5
Characters ==
    [ s \in { "0", "10", "20", "45", "50", "80", "90", "180", "-90", "450",
              "1", ".5", "-.5", "37.5", "2.5" } |->
        CASE s = "0" -> << "0" >>
          [] s = "10" -> << "1", "0" >>
          [] s = "20" -> << "2", "0" >>
          [] s = "45" -> << "4", "5" >>
          [] s = "50" -> << "5", "0" >>
          [] s = "80" -> << "8", "0" >>
          [] s = "90" -> << "9", "0" >>
          [] s = "180" -> << "1", "8", "0" >>
          [] s = "-90" -> << "-", "9", "0" >>
          [] s = "450" -> << "4", "5", "0" >>
          [] s = "1" -> << "1" >>
          [] s = ".5" -> << ".", "5" >>
          [] s = "37.5" -> << "3", "7", ".", "5" >>
          [] s = "2.5" -> << "2", ".", "5" >>
          [] OTHER -> << "-", ".", "5" >> ]

Digits == << "0", "1", "2", "3", "4", "5", "6", "7", "8", "9" >>

IsDigit(c) == \E i \in 1 .. 10 : Digits[i] = c

DigitValue(c) == (CHOOSE i \in 1 .. 10 : Digits[i] = c) - 1

\* The value of the longest prefix of digits of chars, continuing from acc.
RECURSIVE DigitsValue(_, _)
DigitsValue(chars, acc) ==
    IF chars = << >> \/ ~IsDigit(Head(chars)) THEN acc
    ELSE DigitsValue(Tail(chars), acc * 10 + DigitValue(Head(chars)))

\* parseInt(string): an optional sign, then the digits up to the first
\* character that is not one; NaN when there is no digit. It never throws.
ParseInt(string) ==
    LET chars == Characters[string]
        signed == chars # << >> /\ Head(chars) \in {"-", "+"}
        rest == IF signed THEN Tail(chars) ELSE chars
    IN  IF rest = << >> \/ ~IsDigit(Head(rest)) THEN RealNaN
        ELSE IF signed /\ Head(chars) = "-" THEN Real(-DigitsValue(rest, 0), 1)
        ELSE Real(DigitsValue(rest, 0), 1)

\* n % d of JavaScript, whose result takes the sign of n
Remainder(n, d) == IF n >= 0 THEN n % d ELSE -((-n) % d)

\* mod(n, d) of utils.ts on an angle in degrees (d = 360 stands for 2 * pi)
Mod(n, d) ==
    IF n.nan THEN RealNaN
    ELSE Real(Remainder(Remainder(n.num, d) + d, d), 1)

\* The largest r in lo .. hi with r * r <= n
RECURSIVE SqrtBetween(_, _, _)
SqrtBetween(n, lo, hi) ==
    IF lo >= hi THEN lo
    ELSE LET mid == (lo + hi + 1) \div 2
         IN  IF mid * mid <= n THEN SqrtBetween(n, mid, hi)
             ELSE SqrtBetween(n, lo, mid - 1)

\* Math.sqrt(n) in hundredths, rounded down
SqrtHundredths(n) == SqrtBetween(10000 * n, 0, 46340)

\* Math.max(Math.sqrt(width * width + height * height), 1), in hundredths
DiagonalHundredths(width, height) ==
    Max(SqrtHundredths(width * width + height * height), 100)

\* Math.cos and Math.sin of an angle in degrees, in thousandths, for the
\* multiples of 45 degrees.
CosThousandths(degrees) ==
    CASE degrees = 0 -> 1000
      [] degrees = 45 -> 707
      [] degrees = 90 -> 0
      [] degrees = 135 -> -707
      [] degrees = 180 -> -1000
      [] degrees = 225 -> -707
      [] degrees = 270 -> 0
      [] degrees = 315 -> 707

SinThousandths(degrees) == CosThousandths((degrees + 270) % 360)

\* ------------------------------------------------------------------ gradients
\* gradient.orientation: undefined, a DirectionalNode or an AngularNode
NoOrientation == [type |-> "undefined", value |-> ""]

Directional(value) == [type |-> "directional", value |-> value]

Angular(value) == [type |-> "angular", value |-> value]

\* parseAngle, in degrees (180 degrees stand for pi). The switch over the
\* directions has no default and the function then returns undefined, which
\* is NaN to the arithmetic of its caller; parseInt does not throw, so the
\* catch clause of the angular branch is never entered.
ParseAngle(orientation) ==
    IF orientation.type = "undefined" THEN Real(270, 1)
    ELSE IF orientation.type = "directional"
    THEN CASE orientation.value = "left" -> Real(180, 1)
           [] orientation.value = "top" -> Real(90, 1)
           [] orientation.value = "bottom" -> Real(270, 1)
           [] orientation.value = "right" -> Real(0, 1)
           [] orientation.value \in {"left top", "top left"} -> Real(135, 1)
           [] orientation.value \in {"left bottom", "bottom left"} -> Real(225, 1)
           [] orientation.value \in {"right top", "top right"} -> Real(45, 1)
           [] orientation.value \in {"right bottom", "bottom right"} -> Real(315, 1)
           [] OTHER -> RealNaN
    ELSE LET degrees == ParseInt(orientation.value)
         IN  IF degrees.nan THEN RealNaN ELSE Real(degrees.num + 270, 1)

\* gradientInfluence: the clamped dot product of the normalized corner vector
\* with the direction of the angle, rescaled to [0, 1]. Every operation on a
\* NaN angle gives NaN, Math.max and Math.min included.
GradientInfluence(width, height, angle) ==
    IF angle.nan THEN RealNaN
    ELSE LET aspectMagnitude == DiagonalHundredths(width, height)
             aspectX == (width * 100000) \div aspectMagnitude
             aspectY == (height * 100000) \div aspectMagnitude
             dotProduct ==
                 (aspectX * CosThousandths(angle.num)
                    + aspectY * SinThousandths(angle.num)) \div 1000
         IN  Real(Min(Max(dotProduct, -1000), 1000) + 1000, 2000)

\* A ColorStop: its color and its optional length.
NoLength == [type |-> "undefined", value |-> "0"]

Length(type, value) == [type |-> type, value |-> value]

Stop(type, value, length) == [type |-> type, value |-> value, length |-> length]

\* parseStopColor: the rgb of the color as values.js resolves it, over 255.
ParseStopColor(stop) ==
    LET rgb == CASE stop.type = "hex" /\ stop.value = "000" -> << 0, 0, 0 >>
                 [] stop.type = "hex" /\ stop.value = "fff" -> << 255, 255, 255 >>
                 [] OTHER -> << 255, 0, 0 >>
    IN  << Real(rgb[1], 255), Real(rgb[2], 255), Real(rgb[3], 255) >>

\* getRemInPx(): the root font size of the host
RemInPx == 16

\* parseStopPosition with the index divided by the number of stops.
ParseStopPositionOverCount(stop, index, count, diagonal) ==
    LET len == stop.length
    IN  IF len.type = "undefined" THEN Real(index, count)
        ELSE IF len.type = "px"
        THEN OverReal(ParseInt(len.value), Real(diagonal, 100))
        ELSE IF len.type = "em"
        THEN OverReal(Times(ParseInt(len.value), RemInPx), Real(diagonal, 100))
        ELSE Over(ParseInt(len.value), 100)

\* parseStopPosition; diagonal is in hundredths. parseInt does not throw, so
\* none of the three catch clauses is ever entered.
ParseStopPosition(stop, index, count, diagonal) ==
    LET len == stop.length
        maxIndex == Max(count - 1, 1)
    IN  IF len.type = "undefined" THEN Real(index, maxIndex)
        ELSE IF len.type = "px"
        THEN OverReal(ParseInt(len.value), Real(diagonal, 100))
        ELSE IF len.type = "em"
        THEN OverReal(Times(ParseInt(len.value), RemInPx), Real(diagonal, 100))
        ELSE Over(ParseInt(len.value), 100)

\* parseStops; the stop at position i of the sequence has index i - 1.
ParseStops(stops, diagonal) ==
    [ count |-> Len(stops),
      colors |-> [i \in 1 .. Len(stops) |-> ParseStopColor(stops[i])],
      offsets |-> [i \in 1 .. Len(stops) |->
                     ParseStopPosition(stops[i], i - 1, Len(stops), diagonal)] ]

\* const angle = mod(parseAngle(gradient.orientation), Math.PI * 2)
InternalAngle(gradient) == Mod(ParseAngle(gradient.orientation), 360)

\* parseGradient
ParseGradient(gradient, width, height, preserveAspect) ==
    LET angle == InternalAngle(gradient)
        iw == IF preserveAspect THEN width ELSE 1
        ih == IF preserveAspect THEN height ELSE 1
        stops == ParseStops(gradient.colorStops, DiagonalHundredths(width, height))
    IN  [ count |-> stops.count,
          colors |-> stops.colors,
          offsets |-> stops.offsets,
          corners |-> << GradientInfluence(-iw, ih, angle),
                         GradientInfluence(iw, ih, angle),
                         GradientInfluence(-iw, -ih, angle),
                         GradientInfluence(iw, -ih, angle) >> ]

\* ------------------------------------------------------------------ the draw
SHIMMER_FACTOR == Real(1, 1000 * 60 * 10)

\* What a draw leaves in the program and on the canvas: the uniforms (u_scale
\* in units of e), the viewport, and the number of clear and drawArrays calls
\* issued so far. BlankSurface is the state before the first draw.
BlankSurface ==
    [ u_scale |-> << >>, u_factors |-> << >>, u_colors |-> << >>,
      u_offsets |-> << >>, u_tex_offset |-> << >>, viewport |-> << >>,
      clear |-> 0, drawArrays |-> 0 ]

\* The 8-slot tables with the slots after the last stop left at zero.
StopTableUnpadded(parsedGradient) ==
    [ colors |-> [i \in 1 .. 8 |->
                    IF i - 1 < parsedGradient.count THEN parsedGradient.colors[i]
                    ELSE << Real(0, 1), Real(0, 1), Real(0, 1) >>],
      offsets |-> [i \in 1 .. 8 |->
                     IF i - 1 < parsedGradient.count THEN parsedGradient.offsets[i]
                     ELSE Real(0, 1)] ]

\* colorsArray and offsetsArray as the loop of renderGradient fills them;
\* slot i of the source is position i + 1 here.
StopTable(parsedGradient) ==
    [ colors |-> [i \in 1 .. 8 |->
                    IF i - 1 < parsedGradient.count THEN parsedGradient.colors[i]
                    ELSE parsedGradient.colors[parsedGradient.count]],
      offsets |-> [i \in 1 .. 8 |->
                     IF i - 1 < parsedGradient.count THEN parsedGradient.offsets[i]
                     ELSE RealInfinity] ]

\* What renderGradient's validation reads of a parse result: the type of
\* each node and the length of its colorStops.
Validated(parsed) ==
    [i \in 1 .. Len(parsed) |->
        [type |-> parsed[i].type, colorStops |-> Len(parsed[i].colorStops)]]

\* The uniforms, viewport and draw calls of renderGradient once the
\* validation has passed.
Upload(surface, data, width, height, grainSize, grainOffset, preserveAspect) ==
    LET parsedGradient == ParseGradient(data, width, height, preserveAspect)
        table == StopTable(parsedGradient)
    IN  [ u_scale |-> << Real(width, grainSize), Real(height, grainSize) >>,
          u_factors |-> parsedGradient.corners,
          u_colors |-> table.colors,
          u_offsets |-> table.offsets,
          u_tex_offset |-> << Times(SHIMMER_FACTOR, grainOffset) >>,
          viewport |-> << 0, 0, width, height >>,
          clear |-> surface.clear + 1,
          drawArrays |-> surface.drawArrays + 1 ]

\* renderGradient with u_scale uploaded before the validation.
RenderGradientScalingFirst(surface, parsed, width, height, grainSize, grainOffset, preserveAspect) ==
    LET error == RenderGradientError(Validated(parsed))
        scaled ==
            [surface EXCEPT !.u_scale =
                << Real(width, grainSize), Real(height, grainSize) >>]
    IN  IF error # "none"
        THEN [threw |-> TRUE, error |-> error, surface |-> scaled]
        ELSE [ threw |-> FALSE, error |-> "none",
               surface |-> Upload(surface, parsed[1], width, height, grainSize,
                                  grainOffset, preserveAspect) ]

\* renderGradient on the surface left by the draws before it: whether it
\* threw, with which message, and the surface it leaves.
RenderGradientOn(surface, parsed, width, height, grainSize, grainOffset, preserveAspect) ==
    LET error == RenderGradientError(Validated(parsed))
    IN  IF error # "none"
        THEN [threw |-> TRUE, error |-> error, surface |-> surface]
        ELSE [ threw |-> FALSE, error |-> "none",
               surface |-> Upload(surface, parsed[1], width, height, grainSize,
                                  grainOffset, preserveAspect) ]

\* ------------------------------------------------------------------ parseGradient and renderGradient alone
MaxTableStops == 9  \* color stops of the longest gradient drawn

LinearGradient(orientation, colorStops) ==
    [type |-> "linear-gradient", orientation |-> orientation, colorStops |-> colorStops]

Black == Stop("hex", "000", NoLength)

White == Stop("hex", "fff", NoLength)

Red == Stop("literal", "red", NoLength)

\* k color stops without positions
EvenStops(k) ==
    [i \in 1 .. k |-> IF i % 3 = 1 THEN Black ELSE IF i % 3 = 2 THEN White ELSE Red]

At(stop, type, value) == [stop EXCEPT !.length = Length(type, value)]

\* Stops with and without positions, positions out of order, positions in
\* px and em, positions whose number has no integer part or has a fraction,
\* and a position in a unit other than px, em and %.
PositionedStops ==
    { << Black, At(White, "%", "50"), Red, Black >>,
      << At(Black, "%", "80"), At(White, "%", "20") >>,
      << At(Black, "px", "10"), White >>,
      << At(Black, "em", "1"), White, Red >>,
      << At(Black, "%", ".5"), White >>,
      << Black, White, At(Red, "px", ".5") >>,
      << Black, At(White, "em", "-.5") >>,
      << Red, At(Black, "%", "37.5"), White >>,
      << At(Black, "px", "2.5"), At(White, "em", "2.5") >>,
      << Black, At(White, "rem", "1") >> }

Orientations ==
    { NoOrientation, Directional("bottom"), Directional("top"), Directional("right"),
      Directional("left"), Directional("bottom right"), Directional("top left"),
      Angular("180"), Angular("0"), Angular("90"), Angular("45"), Angular("-90"),
      Angular("450"), Angular(".5") }

Gradients ==
    { LinearGradient(o, EvenStops(2)) : o \in Orientations }
        \cup { LinearGradient(Angular("90"), EvenStops(k)) : k \in 1 .. MaxTableStops }
        \cup { LinearGradient(Angular("90"), stops) : stops \in PositionedStops }

\* Parse results renderGradient rejects.
Rejected ==
    { << >>,
      << LinearGradient(NoOrientation, EvenStops(2)),
         LinearGradient(NoOrientation, EvenStops(2)) >>,
      << [type |-> "radial-gradient", orientation |-> NoOrientation,
          colorStops |-> EvenStops(2)] >>,
      << LinearGradient(NoOrientation, << >>) >> }

\* width and height of the canvas
Sizes == { << 0, 0 >>, << 3, 4 >>, << 400, 200 >> }

\* The surface after a first draw.
DrawnSurface ==
    Upload(BlankSurface, LinearGradient(NoOrientation, EvenStops(2)), 3, 4, 256, 0, TRUE)

ParseGradientCalls ==
    { [ fn |-> "parseGradient",
        input |-> [ gradient |-> g, width |-> size[1], height |-> size[2],
                    preserveAspect |-> a ],
        done |-> FALSE, result |-> << >> ] :
        g \in Gradients, size \in Sizes, a \in BOOLEAN }

RenderGradientCalls ==
    { [ fn |-> "renderGradient",
        input |-> [ surface |-> s, parsed |-> parsed, width |-> size[1],
                    height |-> size[2], grainSize |-> n, grainOffset |-> o,
                    preserveAspect |-> a ],
        done |-> FALSE, result |-> << >> ] :
        s \in {BlankSurface, DrawnSurface},
        parsed \in { << g >> : g \in Gradients } \cup Rejected,
        size \in Sizes, n \in {1, 256}, o \in {0, 3}, a \in BOOLEAN }

GradientInit ==
    /\ CanvasInit
    /\ environment = "webgl"
    /\ props = DefaultProps
    /\ call \in ParseGradientCalls \cup RenderGradientCalls

CallParseGradient ==
    /\ call.fn = "parseGradient"
    /\ ~call.done
    /\ call' = [call EXCEPT
                  !.done = TRUE,
                  !.result = ParseGradient(call.input.gradient, call.input.width,
                                           call.input.height, call.input.preserveAspect)]
    /\ UNCHANGED canvasVars

CallRenderGradientOn ==
    /\ call.fn = "renderGradient"
    /\ ~call.done
    /\ call' = [call EXCEPT
                  !.done = TRUE,
                  !.result = RenderGradientOn(call.input.surface, call.input.parsed,
                                              call.input.width, call.input.height,
                                              call.input.grainSize,
                                              call.input.grainOffset,
                                              call.input.preserveAspect)]
    /\ UNCHANGED canvasVars

GradientNext == CallParseGradient \/ CallRenderGradientOn

GradientSpec == GradientInit /\ [][GradientNext]_vars


\* ------------------------------------------------------------------ createNoiseSource
MaxCalls == 2       \* calls of createNoiseSource made one after the other

\* A seed is a number or a string; a string is the sequence of its characters.
NumberSeed(n) == [type |-> "number", number |-> n, string |-> << >>]

StringSeed(chars) == [type |-> "string", number |-> 0, string |-> chars]

\* The decimal digits of n >= 0, most significant first
RECURSIVE DecimalDigits(_)
DecimalDigits(n) ==
    IF n < 10 THEN << Digits[n + 1] >>
    ELSE DecimalDigits(n \div 10) \o << Digits[(n % 10) + 1] >>

\* seed.toString()
SeedToString(seed) ==
    IF seed.type = "string" THEN seed.string
    ELSE IF seed.number < 0 THEN << "-" >> \o DecimalDigits(-seed.number)
    ELSE DecimalDigits(seed.number)

\* The characters seeds are written with, in the order of their codes.
Alphabet == << "-", "0", "1", "2", "3", "4", "5", "6", "7", "8", "9", "a" >>

CharCode(c) == CHOOSE i \in 1 .. Len(Alphabet) : Alphabet[i] = c

\* seedrandom(key): the state of a new generator, mixed from the characters
\* of the key alone.
RECURSIVE SeedRandomFrom(_, _)
SeedRandomFrom(key, generator) ==
    IF key = << >> THEN generator
    ELSE SeedRandomFrom(Tail(key), (generator * 31 + CharCode(Head(key))) % 256)

SeedRandom(key) == SeedRandomFrom(key, 7)

\* One step of the generator; rng() returns the new generator over 256.
Advance(generator) == (generator * 5 + 3) % 256

\* The generator's generator after n calls of rng()
RECURSIVE AdvanceTimes(_, _)
AdvanceTimes(generator, n) == IF n = 0 THEN generator ELSE AdvanceTimes(Advance(generator), n - 1)

\* What Uint8ClampedArray stores of an integer
Clamped(v) == Min(Max(v, 0), 255)

\* new ImageData(data, sw, sh) throws unless sw and sh are positive and the
\* length of data is 4 * sw * sh; a negative size becomes an unsigned long far
\* above the length.
ImageDataThrows(length, sw, sh) == sw <= 0 \/ sh <= 0 \/ length # 4 * sw * sh

\* The bytes of the noise image drawn from a generator in the given state.
NoiseData(generator, size) ==
    [ i \in 1 .. 4 * size * size |->
        IF i % 4 = 0 THEN 255
        ELSE Clamped((AdvanceTimes(generator, (i + 3) \div 4) * 255) \div 256) ]

\* createNoiseSource drawing from one generator that every call shares.
CreateNoiseSourceSharedGenerator(seed, size) ==
    LET data == NoiseData(SeedRandom(<< >>) + Len(call.result), size)
    IN  IF ImageDataThrows(Len(data), size, size)
        THEN [threw |-> TRUE, data |-> << >>, width |-> 0, height |-> 0]
        ELSE [threw |-> FALSE, data |-> data, width |-> size, height |-> size]

\* createNoiseSource: the ImageData it returns, or that it threw.
CreateNoiseSource(seed, size) ==
    LET data == NoiseData(SeedRandom(SeedToString(seed)), size)
    IN  IF ImageDataThrows(Len(data), size, size)
        THEN [threw |-> TRUE, data |-> << >>, width |-> 0, height |-> 0]
        ELSE [threw |-> FALSE, data |-> data, width |-> size, height |-> size]

Seeds ==
    { NumberSeed(0), NumberSeed(12), NumberSeed(51966), NumberSeed(-1),
      StringSeed(<< "1", "2" >>), StringSeed(<< "0", "1", "2" >>),
      StringSeed(<< "a" >>), StringSeed(<< "5", "1", "9", "6", "6" >>) }

NoiseSizes == {1, 2}

NoiseInit ==
    /\ CanvasInit
    /\ environment = "webgl"
    /\ props = DefaultProps
    /\ call = [fn |-> "createNoiseSource", input |-> << >>, done |-> FALSE,
               result |-> << >>]

\* One more call; result lists the calls made so far with what they returned.
CallCreateNoiseSource ==
    /\ call.fn = "createNoiseSource"
    /\ Len(call.result) < MaxCalls
    /\ \E seed \in Seeds, size \in NoiseSizes :
          call' = [call EXCEPT
                     !.input = << seed, size >>,
                     !.done = TRUE,
                     !.result = Append(@, [ seed |-> seed, size |-> size,
                                            image |-> CreateNoiseSource(seed, size) ])]
    /\ UNCHANGED canvasVars

NoiseSpec == NoiseInit /\ [][CallCreateNoiseSource]_vars

\* ------------------------------------------------------------------ render and the noise-texture effect alone
\* The size render passes to renderGradient as grainSize
GrainSize(noiseTextureSize) == Max(1, EffectiveNoiseSize(noiseTextureSize))

\* What one call of render, with every resource present, computes from the
\* clock and the canvas: the time it passes to a gradient function, when the
\* gradient is one, and the arguments it passes to renderGradient.
RenderArguments(r, now, element) ==
    LET time == r.initialTime + now
    IN  [ gradientTime |-> IF r.gradient = GradientFunction THEN << time >> ELSE << >>,
          width |-> element.width,
          height |-> element.height,
          grainSize |-> GrainSize(r.noiseTextureSize),
          grainOffset |-> EffectiveShimmer(r.shimmerSpeed).v * now,
          preserveAspect |-> r.preserveAspect ]

\* The noise-texture effect from effectiveSize on: the size it generates the
\* image with, and whether createNoiseSource threw.
NoiseTextureEffect(noiseSeed, noiseTextureSize) ==
    LET effectiveSize == EffectiveNoiseSize(noiseTextureSize)
    IN  [ size |-> effectiveSize,
          threw |-> ImageDataThrows(4 * effectiveSize * effectiveSize,
                                    effectiveSize, effectiveSize) ]

NoiseTextureSizes ==
    { Undefined, NaN, PosInfinity, Num(-1), Num(0), Num(1), Num(2), Num(256) }

\* performance.now() at the calls observed
Clock == {0, 16, 32}

RenderCalls ==
    { [ fn |-> "render",
        input |-> [ r |-> [ RenderClosure(DefaultProps, [gl |-> 1, program |-> 1,
                                                          grainTexture |-> 1])
                              EXCEPT !.initialTime = t, !.shimmerSpeed = x,
                                     !.noiseTextureSize = n, !.gradient = g ],
                    now |-> now, element |-> [width |-> size[1], height |-> size[2]] ],
        done |-> FALSE, result |-> << >> ] :
        t \in {0, 1000}, x \in PropDomain.shimmerSpeed, n \in NoiseTextureSizes,
        g \in {LinearDescription, GradientFunction}, now \in Clock,
        size \in { << 1, 1 >>, << 400, 200 >> } }

NoiseTextureEffectCalls ==
    { [ fn |-> "noise-texture effect",
        input |-> [noiseSeed |-> seed, noiseTextureSize |-> n],
        done |-> FALSE, result |-> << >> ] :
        seed \in PropDomain.noiseSeed, n \in NoiseTextureSizes }

RenderInit ==
    /\ CanvasInit
    /\ environment = "webgl"
    /\ props = DefaultProps
    /\ call \in RenderCalls \cup NoiseTextureEffectCalls

CallRender ==
    /\ call.fn = "render"
    /\ ~call.done
    /\ call' = [call EXCEPT
                  !.done = TRUE,
                  !.result = RenderArguments(call.input.r, call.input.now,
                                             call.input.element)]
    /\ UNCHANGED canvasVars

CallNoiseTextureEffect ==
    /\ call.fn = "noise-texture effect"
    /\ ~call.done
    /\ call' = [call EXCEPT
                  !.done = TRUE,
                  !.result = NoiseTextureEffect(call.input.noiseSeed,
                                                call.input.noiseTextureSize)]
    /\ UNCHANGED canvasVars

RenderNext == CallRender \/ CallNoiseTextureEffect

RenderSpec == RenderInit /\ [][RenderNext]_vars


\* ------------------------------------------------------------------ the fragment shader
\* x < y and x >= y of GLSL on fractions and +Infinity; both are false when
\* an operand is NaN.
Less(x, y) ==
    /\ ~x.nan /\ ~y.nan
    /\ ~x.inf
    /\ (y.inf \/ x.num * y.den < y.num * x.den)

GreaterOrEqual(x, y) == ~x.nan /\ ~y.nan /\ ~Less(x, y)

\* x - y for fractions
Minus(x, y) == Real(x.num * y.den - y.num * x.den, x.den * y.den)

\* vec3(0)
Vec3Zero == << Real(0, 1), Real(0, 1), Real(0, 1) >>

\* (v_factor - u_offsets[i]) / (u_offsets[i + 1] - u_offsets[i]) inside the
\* bracket, where u_offsets[i] <= v_factor < u_offsets[i + 1]; a finite number
\* over Infinity is 0.
ScaledFactor(factor, lower, upper) ==
    IF upper.inf THEN Real(0, 1)
    ELSE OverReal(Minus(factor, lower), Minus(upper, lower))

\* The seven bracket tests in the order the shader source lists them, from
\* bracket i on; each one that matches overwrites color. Slot i of the
\* source is position i + 1 here.
RECURSIVE Brackets(_, _, _, _, _, _)
Brackets(colors, offsets, factor, sample, i, color) ==
    IF i > 7 THEN color
    ELSE Brackets(colors, offsets, factor, sample, i + 1,
                  IF GreaterOrEqual(factor, offsets[i]) /\ Less(factor, offsets[i + 1])
                  THEN IF Less(ScaledFactor(factor, offsets[i], offsets[i + 1]), sample)
                       THEN colors[i]
                       ELSE colors[i + 1]
                  ELSE color)

\* main of FRAGMENT_SHADER: the rgb written to gl_FragColor for a fragment
\* with blend factor v_factor and the given sample of the noise texture.
FragmentColor(colors, offsets, factor, sample) ==
    Brackets(colors, offsets, factor, sample, 1,
             IF Less(factor, offsets[1]) THEN colors[1] ELSE Vec3Zero)

\* k stops without positions, none of them black
BrightStops(k) == [i \in 1 .. k |-> IF i % 2 = 1 THEN White ELSE Red]

FragmentGradients ==
    { LinearGradient(Angular("90"), BrightStops(k)) : k \in 1 .. MaxTableStops }
        \cup { LinearGradient(Angular("90"), stops) :
                 stops \in { << At(White, "%", "20"), At(Red, "%", "80") >>,
                             << At(White, "%", "80"), At(Red, "%", "20") >>,
                             << At(White, "%", "50"), At(Red, "%", "50") >>,
                             << White, At(Red, "%", "10"), White >> } }

\* Blend factors and noise samples, in [0, 1]
Factors == { Real(0, 1), Real(1, 10), Real(1, 2), Real(9, 10), Real(1, 1) }

NoiseSamples == { Real(0, 1), Real(1, 2), Real(1, 1) }

FragmentCalls ==
    { [ fn |-> "fragment shader",
        input |-> [ gradient |-> g,
                    table |-> StopTable(ParseGradient(g, 400, 200, TRUE)),
                    factor |-> v, noise |-> n ],
        done |-> FALSE, result |-> << >> ] :
        g \in FragmentGradients, v \in Factors, n \in NoiseSamples }

FragmentInit ==
    /\ CanvasInit
    /\ environment = "webgl"
    /\ props = DefaultProps
    /\ call \in FragmentCalls

CallFragment ==
    /\ call.fn = "fragment shader"
    /\ ~call.done
    /\ call' = [call EXCEPT
                  !.done = TRUE,
                  !.result = FragmentColor(call.input.table.colors,
                                           call.input.table.offsets,
                                           call.input.factor, call.input.noise)]
    /\ UNCHANGED canvasVars

FragmentSpec == FragmentInit /\ [][CallFragment]_vars


\* ------------------------------------------------------------------ properties
\* gl, program and texture exist and the render that saw them has run its
\* effects.
Ready ==
    /\ state.gl # Null /\ state.program # Null /\ state.grainTexture # Null
    /\ queue = state

\* Static as the specification words it: a string gradient with shimmer
\* speed 0, or paused.
StaticConfiguration(p) ==
    \/ p.gradient \in Descriptions /\ p.shimmerSpeed = Num(0)
    \/ p.paused

\* Animating as the code decides it: a gradient function or a finite shimmer
\* speed above 0, and not paused.
AnimatingConfiguration(p) ==
    /\ \/ p.gradient \notin Descriptions
       \/ p.shimmerSpeed.type = "number" /\ p.shimmerSpeed.finite
          /\ p.shimmerSpeed.v > 0
    /\ p.paused = FALSE

\* The number of times an onReady function was called.
ReadyCalls == Cardinality({i \in 1 .. Len(readyLog) : readyLog[i] # "undefined"})

\* C1: at most one requestAnimationFrame callback that will invoke render is
\* pending, in every reachable state of a Canvas instance.
AtMostOnePending == Cardinality(pending) <= 1

\* C1, for GrainyGradient of index.tsx under resize notifications.
LegacyAtMostOnePending == Cardinality(pending) <= 1

\* The construction of a Static Canvas yields exactly one draw, done or
\* requested.
StaticConstructionDrawsOnce ==
    (phase = "mounted" /\ Ready /\ changes = 0 /\ props.gradient = LinearDescription)
        => draws + Cardinality(pending) = 1

\* A change of width, height, noiseSeed or noiseTextureSize in the Static
\* state requests exactly one draw.
StaticChangeRequestsOneDraw ==
    [][ ( /\ phase = "mounted" /\ phase' = "mounted" /\ Ready
          /\ StaticConfiguration(props) /\ StaticConfiguration(props')
          /\ \/ props'.width # props.width
             \/ props'.height # props.height
             \/ props'.noiseSeed # props.noiseSeed
             \/ props'.noiseTextureSize # props.noiseTextureSize )
        => Cardinality(pending') = Cardinality(pending) + 1 ]_vars

\* A refresh that draws in the Static state leaves nothing scheduled.
StaticFrameLeavesNothingScheduled ==
    [][ ( /\ phase = "mounted" /\ Ready /\ StaticConfiguration(props)
          /\ draws' # draws )
        => pending' = {} ]_vars

\* C2: in the Static state the construction yields exactly one draw, each
\* change of width, height, noiseSeed or noiseTextureSize requests exactly one
\* draw, and the refresh that performs the draws leaves nothing scheduled.
StaticDrawsOncePerChange ==
    /\ []StaticConstructionDrawsOnce
    /\ StaticChangeRequestsOneDraw
    /\ StaticFrameLeavesNothingScheduled

PauseCancelsChain ==
    /\ [][ ( /\ phase = "mounted" /\ phase' = "mounted" /\ Ready
             /\ AnimatingConfiguration(props) /\ props'.paused )
           => \A c \in pending' : c.fn # "render" ]_vars
    /\ [][ ( /\ phase = "mounted" /\ Ready /\ props.paused
             /\ draws' # draws )
           => pending' = {} ]_vars

\* C6: after the unmount no requestAnimationFrame callback of the instance is
\* pending.
UnmountCancelsPending == phase = "unmounted" => pending = {}

\* C7: after the unmount every program and every texture the instance created
\* has been released.
UnmountReleasesResources ==
    phase = "unmounted" => (programs = {} /\ textures = {})

ContextFailureStaysIdle ==
    /\ ~effectThrew
    /\ (phase # "rendered" /\ queue.gl = Null) =>
          /\ state = [gl |-> Null, program |-> Null, grainTexture |-> Null]
          /\ queue = state
          /\ programs = {} /\ textures = {}
          /\ pending = {} /\ nextId = 1 /\ animationFrameId = Null
          /\ draws = 0 /\ readyLog = << >>
          /\ props.onContextError # "undefined" => props.onContextError \in errorLog

ContextFailureReported ==
    /\ phase = "mounted" /\ environment = "throws"
    /\ queue.gl = Null
    /\ props.onContextError = "onContextErrorA"
    /\ errorLog = {"onContextErrorA"}
    /\ changes >= 1

\* The values of shimmerSpeed the parent switches between while the
\* animation is observed: negative, zero and positive.
AnimationPropDomain ==
    [ gradient |-> PropDomain.gradient,
      shimmerSpeed |-> {Num(-1), Num(0), Num(1)},
      paused |-> PropDomain.paused ]

\* The parent renders Canvas with one of the props that decide whether it
\* animates changed.
ChangeAnimationProp ==
    /\ phase = "mounted"
    /\ changes < MaxChanges
    /\ \E name \in DOMAIN AnimationPropDomain :
          \E value \in AnimationPropDomain[name] :
              /\ value # props[name]
              /\ Commit([props EXCEPT ![name] = value])
    /\ changes' = changes + 1
    /\ UNCHANGED << environment, phase, didFireReady, draws, readyLog, frameThrew,
                    call >>

\* A Canvas whose host provides a WebGL context.
LiveInit == Init /\ environment = "webgl"

LiveNext == Mount \/ Rerender \/ ChangeAnimationProp \/ Frame \/ Unmount

\* Fairness: the host keeps delivering display refreshes while a callback is
\* pending, and React completes the renders that setState calls requested.
LiveSpec == LiveInit /\ [][LiveNext]_vars /\ WF_vars(Frame) /\ WF_vars(Rerender)


MalformedGradientLeavesSurface ==
    ( /\ call.fn = "renderGradient" /\ call.done
      /\ ~( /\ Len(call.input.parsed) = 1
            /\ call.input.parsed[1].type = "linear-gradient"
            /\ Len(call.input.parsed[1].colorStops) >= 1 ) )
        => /\ call.result.threw
           /\ call.result.surface = call.input.surface

RadialGradientAfterDraw ==
    /\ call.fn = "renderGradient" /\ call.done
    /\ call.result.threw
    /\ Len(call.input.parsed) = 1
    /\ call.input.parsed[1].type = "radial-gradient"
    /\ call.input.surface.drawArrays = 1
    /\ call.input.width = 400

\* C14: the 8-slot tables a draw uploads hold, for a gradient of k stops, the
\* color and offset of stop i in slot i for i < k, and the color of the last
\* stop and the infinite offset in the slots from k on; of more than 8 stops
\* the first 8 are uploaded.
StopTablePadded ==
    (call.fn = "renderGradient" /\ call.done /\ ~call.result.threw) =>
        LET stops == call.input.parsed[1].colorStops
            k == Len(stops)
            diagonal == DiagonalHundredths(call.input.width, call.input.height)
            surface == call.result.surface
        IN  /\ Len(surface.u_colors) = 8
            /\ Len(surface.u_offsets) = 8
            /\ \A i \in 1 .. 8 :
                  IF i <= k
                  THEN /\ surface.u_colors[i] = ParseStopColor(stops[i])
                       /\ surface.u_offsets[i] =
                              ParseStopPosition(stops[i], i - 1, k, diagonal)
                  ELSE /\ surface.u_colors[i] = ParseStopColor(stops[k])
                       /\ surface.u_offsets[i] = RealInfinity

NineStopsDrawn ==
    /\ call.fn = "renderGradient" /\ call.done /\ ~call.result.threw
    /\ Len(call.input.parsed[1].colorStops) = 9
    /\ call.result.surface.u_colors[8] = ParseStopColor(White)

\* C15: a stop without a position gets the offset index / max(count - 1, 1),
\* index being its index among all the stops; the offsets come out in the
\* order of the stops; and linear-gradient(90deg, #000, #fff) at 400 x 200
\* uploads the offsets 0, 1 and six times the infinite one.
EvenlySpacedByIndex ==
    /\ (call.fn = "parseGradient" /\ call.done) =>
          LET stops == call.input.gradient.colorStops
              k == Len(stops)
          IN  /\ call.result.count = k
              /\ Len(call.result.offsets) = k
              /\ \A i \in 1 .. k :
                    /\ stops[i].length = NoLength =>
                          call.result.offsets[i] = Real(i - 1, Max(k - 1, 1))
                    /\ (stops[i].length.type = "%" /\ ~ParseInt(stops[i].length.value).nan)
                          => call.result.offsets[i] =
                                Over(ParseInt(stops[i].length.value), 100)
    /\ ( /\ call.fn = "renderGradient" /\ call.done
         /\ call.input.parsed = << LinearGradient(Angular("90"), << Black, White >>) >>
         /\ call.input.width = 400 /\ call.input.height = 200 )
          => /\ ~call.result.threw
             /\ call.result.surface.u_offsets =
                  << Real(0, 1), Real(1, 1), RealInfinity, RealInfinity, RealInfinity,
                     RealInfinity, RealInfinity, RealInfinity >>

PositionlessStopAfterPositioned ==
    /\ call.fn = "parseGradient" /\ call.done
    /\ call.input.gradient.colorStops = << Black, At(White, "%", "50"), Red, Black >>
    /\ call.result.offsets = << Real(0, 1), Real(1, 2), Real(2, 3), Real(1, 1) >>

\* C16: 'to bottom', the absent orientation and 180deg give the same internal
\* angle, that of the default orientation, and the same four corner values,
\* for every width, height and preserveAspect.
ToBottomMatches180deg ==
    ( /\ call.fn = "parseGradient" /\ call.done
      /\ call.input.gradient.orientation \in
            {NoOrientation, Directional("bottom"), Angular("180")} )
        => /\ InternalAngle(call.input.gradient) = Real(270, 1)
           /\ call.result.corners =
                ParseGradient([call.input.gradient EXCEPT !.orientation = NoOrientation],
                              call.input.width, call.input.height,
                              call.input.preserveAspect).corners

\* C17: an angle whose number does not parse becomes the angle 0, a stop
\* position whose number does not parse becomes index / max(count - 1, 1),
\* and no angle, corner or offset is NaN.
MalformedNumberRecovered ==
    (call.fn = "parseGradient" /\ call.done) =>
        LET gradient == call.input.gradient
            stops == gradient.colorStops
            k == Len(stops)
        IN  /\ ( /\ gradient.orientation.type = "angular"
                 /\ ParseInt(gradient.orientation.value).nan )
                  => ParseAngle(gradient.orientation) = Real(0, 1)
            /\ \A i \in 1 .. k :
                  ( /\ stops[i].length.type # "undefined"
                    /\ ParseInt(stops[i].length.value).nan )
                      => call.result.offsets[i] = Real(i - 1, Max(k - 1, 1))
            /\ ~InternalAngle(gradient).nan
            /\ \A i \in 1 .. 4 : ~call.result.corners[i].nan
            /\ \A i \in 1 .. k : ~call.result.offsets[i].nan

\* C18: each of the four corner values of parseGradient lies in [0, 1] and
\* the internal angle lies in [0, 360) degrees, for every linear gradient
\* with at least one stop, every width and height from 0 on and both values
\* of preserveAspect.
CornersInUnitInterval ==
    (call.fn = "parseGradient" /\ call.done) =>
        LET angle == InternalAngle(call.input.gradient)
        IN  /\ \A i \in 1 .. 4 : InUnitInterval(call.result.corners[i])
            /\ ~angle.nan /\ 0 <= angle.num /\ angle.num < 360

\* C12: the noise image is generated and uploaded once per (noiseSeed,
\* effective noiseTextureSize): from mount, and from each change of that
\* pair, to the next change of it, no more than one image is generated,
\* whatever frames run and whatever other props change.
NoiseGeneratedOncePerKey == noise.uploads <= 1

InitialTimeAddedEverywhere ==
    (call.fn = "render" /\ call.done) =>
        LET r == call.input.r
            elapsed == r.initialTime + call.input.now
        IN  /\ r.gradient = GradientFunction => call.result.gradientTime = << elapsed >>
            /\ Times(SHIMMER_FACTOR, call.result.grainOffset) =
                  Times(SHIMMER_FACTOR, EffectiveShimmer(r.shimmerSpeed).v * elapsed)

\* C20: a noiseTextureSize that is not a positive finite integer counts as
\* 256, the size the noise image is generated with is the size the scale
\* uniform divides by, and generating the image does not fail.
NoiseSizeFallsBack ==
    /\ (call.fn = "noise-texture effect" /\ call.done) =>
          /\ ~call.result.threw
          /\ call.result.size = GrainSize(call.input.noiseTextureSize)
          /\ ~( IsFiniteNumber(call.input.noiseTextureSize)
                /\ call.input.noiseTextureSize.v > 0 )
                => call.result.size = 256
    /\ (call.fn = "render" /\ call.done) =>
          ( ~( IsFiniteNumber(call.input.r.noiseTextureSize)
               /\ call.input.r.noiseTextureSize.v > 0 )
              => call.result.grainSize = 256 )

\* C21: a Canvas instance creates its program and its noise texture at most
\* once: whatever props the parent changes, no second program is compiled and
\* no second texture is created.
BundleCreatedOnce == Cardinality(programs) <= 1 /\ Cardinality(textures) <= 1

\* The number a decimal literal denotes: sign, integer part, fraction.
RECURSIVE DigitsLength(_)
DigitsLength(chars) ==
    IF chars = << >> \/ ~IsDigit(Head(chars)) THEN 0 ELSE 1 + DigitsLength(Tail(chars))

RECURSIVE PowerOfTen(_)
PowerOfTen(k) == IF k = 0 THEN 1 ELSE 10 * PowerOfTen(k - 1)

LiteralValue(string) ==
    LET chars == Characters[string]
        negative == chars # << >> /\ Head(chars) = "-"
        unsigned == IF negative THEN Tail(chars) ELSE chars
        whole == DigitsLength(unsigned)
        after == SubSeq(unsigned, whole + 1, Len(unsigned))
        fraction == IF after # << >> /\ Head(after) = "." THEN Tail(after) ELSE << >>
        places == DigitsLength(fraction)
        magnitude == DigitsValue(unsigned, 0) * PowerOfTen(places) + DigitsValue(fraction, 0)
    IN  Real(IF negative THEN -magnitude ELSE magnitude, PowerOfTen(places))

\* C22: every explicit stop position is converted from the number its literal
\* denotes, fraction included: p% gives p / 100, n px gives n / D, n em gives
\* n * rootFontSize / D, with D = max(sqrt(width^2 + height^2), 1), and a
\* length in any other unit is not read as a percentage.
ExplicitPositionsExact ==
    (call.fn = "parseGradient" /\ call.done) =>
        LET stops == call.input.gradient.colorStops
            D == Real(DiagonalHundredths(call.input.width, call.input.height), 100)
        IN  \A i \in 1 .. Len(stops) :
              LET len == stops[i].length
                  n == LiteralValue(len.value)
                  offset == call.result.offsets[i]
              IN  CASE len.type = "undefined" -> TRUE
                    [] len.type = "%" -> offset = Over(n, 100)
                    [] len.type = "px" -> offset = OverReal(n, D)
                    [] len.type = "em" -> offset = OverReal(Times(n, RemInPx), D)
                    [] OTHER -> offset # Over(n, 100)

\* C23: for the table of a gradient of 1 to 8 stops, every blend factor in
\* [0, 1] and every noise sample, the fragment shader outputs a color of the
\* table and never the initial vec3(0): colors[0] when the factor is below
\* offsets[0], and otherwise colors[i] or colors[i + 1] of a bracket
\* [offsets[i], offsets[i + 1]) that holds the factor.
FragmentOutputsStopColor ==
    (call.fn = "fragment shader" /\ call.done
       /\ Len(call.input.gradient.colorStops) <= 8) =>
        LET colors == call.input.table.colors
            offsets == call.input.table.offsets
            factor == call.input.factor
        IN  /\ call.result # Vec3Zero
            /\ \E i \in 1 .. 8 : call.result = colors[i]
            /\ IF Less(factor, offsets[1])
               THEN call.result = colors[1]
               ELSE \E i \in 1 .. 7 :
                      /\ GreaterOrEqual(factor, offsets[i])
                      /\ Less(factor, offsets[i + 1])
                      /\ call.result \in {colors[i], colors[i + 1]}

\* The props a draw is computed from, of a render closure or of the props.
Configuration(r) ==
    << r.gradient, r.shimmerSpeed, r.preserveAspect, r.noiseTextureSize, r.initialTime >>

\* C24: every draw is computed from the current gradient, shimmerSpeed,
\* preserveAspect, noiseTextureSize and initialTime: a display refresh makes
\* no more draws than it runs callbacks whose render closure holds the values
\* of the last render, so no closure of an earlier configuration draws.
DrawsUseCurrentConfiguration ==
    [][ draws' > draws =>
          draws' - draws <=
              Cardinality({ c \in pending :
                              Configuration(c.render) = Configuration(props) }) ]_vars

\* A step that is a display refresh
IsFrame == pending' # pending /\ UNCHANGED << phase, props, state, queue >>

\* C25: a render call that throws on the description a gradient function
\* returned has requested no frame and fired no onReady: a refresh in which a
\* callback threw requests no more frames than it completed draws, and when
\* nothing was drawn it leaves no request and the onReady latch as it was;
\* once no request is left, one is made again only by a run of the
\* scheduling effect on changed dependencies.
NoRetryAfterThrow ==
    [][ /\ (IsFrame /\ frameThrew') =>
              /\ Cardinality(pending') <= draws' - draws
              /\ draws' = draws =>
                    /\ pending' = {}
                    /\ didFireReady' = didFireReady
                    /\ readyLog' = readyLog
        /\ (pending = {} /\ pending' # {}) => deps'.schedule # deps.schedule ]_vars

GradientFunctionThrewAfterDraw ==
    /\ phase = "mounted"
    /\ props.gradient = GradientFunction
    /\ Animated(props)
    /\ draws >= 1
    /\ frameThrew
    /\ pending = {}

====
